---- MODULE Spec2Model ----
(***************************************************************************)
(* A model of four_on_the_floor: the playback thread and its beat clock    *)
(* (play_pattern_with_soundbank), the per-cycle worker pool that plays the *)
(* triggers, the pattern reload thread, the visualizer and the Ctrl+C      *)
(* handler, as they share the pattern collection, the playhead and the     *)
(* running and ready flags.                                                *)
(*                                                                         *)
(* Units.  A beat offset (f32 in the source) is an integer number of       *)
(* units with 1.0 beat = Scale = 2 * N units, so that the tick value       *)
(* i / 8.0 is the integer 2 * i and an offset that lies between two ticks  *)
(* (an odd number) is representable.  Durations are in                     *)
(* thousandths, velocities are whole numbers.  Option<T> is a sequence of  *)
(* length 0 (None) or 1 (Some).                                            *)
(***************************************************************************)
EXTENDS Integers, Sequences, FiniteSets, TLC

VARIABLES
    running,            \* AtomicBool running (main.rs:567)
    gui_ready,          \* AtomicBool gui_ready (main.rs:614)
    show_gui,           \* !args.contains("--no-gui") (main.rs:556)
    patterns,           \* the Vec behind Arc<RwLock<Vec<Pattern>>> (main.rs:578)
    patterns_writer,    \* TRUE while the reload thread holds the write lock
    reload_pc,          \* position of the reload thread (main.rs:590-609)
    reload_local,       \* its locals: the outcome of the poll and combined_patterns,
                        \* and (history) the collection held when the poll began
    pc,                 \* position of the playback thread (main.rs:617-643)
    current_patterns,   \* its snapshot (main.rs:620)
    i,                  \* the tick index of play_pattern_with_soundbank (main.rs:271)
    cycle,              \* number of calls of play_pattern_with_soundbank so far
    current_beat,       \* the f32 behind Arc<RwLock<f32>> (main.rs:611)
    tasks,              \* every closure handed to a pool, with its progress
    gui_pc,             \* position of PatternVisualizerApp::update
    gui_local,          \* its local sample_patterns
    cancelled_at,       \* history: where the playback thread stood at the first Ctrl+C
    main_pc,            \* position of the main thread (main.rs:528-674)
    loader,             \* SoundBank::new / LoopBank::new at work (main.rs:41-85, 123-162)
    clock,              \* Instant::now() and the times of play_pattern_with_soundbank
                        \* (main.rs:264-317), in integer units
    locking             \* who holds the pattern lock, the playhead lock and the
                        \* MIDI mutex, and where each thread stands between them

vars == <<running, gui_ready, show_gui, patterns, patterns_writer, reload_pc,
          reload_local, pc, current_patterns, i, cycle, current_beat, tasks,
          gui_pc, gui_local, cancelled_at, main_pc, loader, clock, locking>>

----------------------------------------------------------------------------
(* Bounds of the model *)

\* the playback thread runs at most MaxTicks ticks in all
MaxTicks == 14

\* the loop_beats argument of play_pattern_with_soundbank (main passes 8)
LoopBeats == 1

\* the largest velocity a pattern of patterns.json is given
MaxVelocity == 130

\* the largest number of entries of an asset directory
MaxFiles == 3

\* eighth_beat_duration, in units of the clock
TickUnits == 3

\* the longest the dispatch of one tick takes, in units of the clock
MaxOverhead == 5

\* the longest a thread::sleep lasts beyond the time asked for
MaxLate == 1

\* the largest loop_beats of the timed run of play_pattern_with_soundbank
MaxLoopBeats == 2

----------------------------------------------------------------------------
(* Program constants *)

\* ticks per beat: `/ 8.0` and `loop_beats * 8`
N == 8

\* ThreadPool::new(4) of play_pattern_with_soundbank
PoolSize == 4

\* beat units per beat
Scale == 2 * N

None == <<>>
Some(x) == <<x>>

----------------------------------------------------------------------------
(* model.rs: Pattern and PatternBuilder *)

Pattern(sound, loop_name, midi_note, beats, velocity, duration) ==
    [sound |-> sound, loop_name |-> loop_name, midi_note |-> midi_note,
     beats |-> beats, velocity |-> velocity, duration |-> duration]

\* PatternBuilder::new().loop_name(name).beats(beats).duration(duration).build()
PatternBuilder_loop(name, beats, duration) ==
    Pattern(None, Some(name), None, beats, 100, duration)

----------------------------------------------------------------------------
(* Inputs: patterns.json and the MIDI-file-derived patterns *)

\* patterns.json, one pattern firing at beats 0.0 and 0.5
JsonA_patterns == << Pattern(Some("bd"), None, None, <<0, 8>>, 100, 250) >>

\* patterns.json with an unknown sample next to a known one at beat 0.5, an
\* offset listed twice, an offset between two ticks, patterns carrying several
\* trigger fields or none, and a velocity above 127
JsonB_patterns ==
    << Pattern(Some("missing"), None, None, <<8, 8>>, 100, 250),
       Pattern(Some("bd"), Some("dl-ethnic"), None, <<8, 3>>, 90, 250),
       Pattern(Some("bd"), Some("dl-ethnic"), Some(60), <<12>>, 200, 300),
       Pattern(None, Some("nope"), None, <<10>>, 100, 1000),
       Pattern(None, None, None, <<0>>, 100, 250) >>

\* the result of midi::read_midi_and_extract_pattern, fixed at startup
Midi_patterns == << Pattern(None, None, Some(72), <<12>>, 80, 500) >>

----------------------------------------------------------------------------
(* main.rs: the built-in patterns *)

\* for &note in chord_notes { for &beat in chord_beats { push } }
add_chord_pattern(chord_notes, chord_beats, velocity, duration) ==
    [k \in 1..(Len(chord_notes) * Len(chord_beats)) |->
        Pattern(None, None,
                Some(chord_notes[((k - 1) \div Len(chord_beats)) + 1]),
                <<chord_beats[((k - 1) % Len(chord_beats)) + 1]>>,
                velocity, duration)]

chord_patterns ==
       add_chord_pattern(<<61, 64, 68>>, <<4, 20, 28>>, 100, 100)
    \o add_chord_pattern(<<66, 69, 73>>, <<36, 52, 60>>, 100, 100)
    \o add_chord_pattern(<<69, 73, 76>>, <<68, 84, 92>>, 100, 100)
    \o add_chord_pattern(<<71, 75, 78>>, <<100, 104, 116, 124>>, 100, 100)

loop_patterns ==
    << PatternBuilder_loop("dl-ethnic", <<0, 64>>, 2000),
       PatternBuilder_loop("dl-ethnic", <<20, 84>>, 2500) >>

----------------------------------------------------------------------------
(* Pattern values are immutable.  A Vec<Pattern> is held as the sequence of  *)
(* the places its patterns have in AllPatterns; Pat(id) is the pattern.      *)

\* patterns.json with one MIDI pattern, for every velocity and duration of
\* Velocities and Durations
MinVelocity == 0 - 3
Velocities == MinVelocity..MaxVelocity
Durations == <<0 - 1000, 0, 250>>

Note_patterns ==
    [k \in 1..(Cardinality(Velocities) * Len(Durations)) |->
        Pattern(None, None, Some(60), <<0>>,
                MinVelocity + ((k - 1) \div Len(Durations)),
                Durations[((k - 1) % Len(Durations)) + 1])]

AllPatterns ==
    JsonA_patterns \o JsonB_patterns \o loop_patterns \o chord_patterns \o Midi_patterns
        \o Note_patterns

Pat(id) == AllPatterns[id]

\* the places of `count` patterns that follow the first `before` ones
Places(before, count) == [k \in 1..count |-> before + k]

JsonA == Places(0, Len(JsonA_patterns))
JsonB == Places(Len(JsonA_patterns), Len(JsonB_patterns))
BuiltinLoops == Places(Len(JsonA_patterns) + Len(JsonB_patterns), Len(loop_patterns))
generate_chord_patterns ==
    Places(Len(JsonA_patterns) + Len(JsonB_patterns) + Len(loop_patterns),
           Len(chord_patterns))
MidiPattern ==
    Places(Len(JsonA_patterns) + Len(JsonB_patterns) + Len(loop_patterns)
             + Len(chord_patterns), Len(Midi_patterns))
\* patterns.json holding the k-th of Note_patterns
JsonNote(k) ==
    Places(Len(JsonA_patterns) + Len(JsonB_patterns) + Len(loop_patterns)
             + Len(chord_patterns) + Len(Midi_patterns) + k - 1, 1)

\* a variant that leaves the built-in patterns out
generate_without_builtins(midi_pattern, json_patterns) ==
    json_patterns \o midi_pattern

generate_combined_patterns(midi_pattern, json_patterns) ==
    json_patterns \o BuiltinLoops \o generate_chord_patterns \o midi_pattern

----------------------------------------------------------------------------
(* Inputs: what reading patterns.json can give, and the asset banks *)

\* what fs::read_to_string and serde_json::from_str can give for patterns.json
FileContent(readable, parses, json) ==
    [readable |-> readable, parses |-> parses, json |-> json]

FileContents ==
    { FileContent(FALSE, FALSE, <<>>),      \* the file cannot be read
      FileContent(TRUE, FALSE, <<>>),       \* the content is not a Vec<Pattern>
      FileContent(TRUE, TRUE, JsonA),
      FileContent(TRUE, TRUE, JsonB) }

\* SoundBank.data and LoopBank.data after loading: labels (with native bpm)
sound_bank == {"bd"}
loop_bank == [name \in {"dl-ethnic"} |-> 120]

----------------------------------------------------------------------------
(* main.rs: loading and combining the patterns *)

load_and_combine_patterns_from_content(file, midi_pattern) ==
    IF file.parses
        THEN generate_combined_patterns(midi_pattern, file.json)
        ELSE generate_combined_patterns(midi_pattern, <<>>)

load_and_combine_patterns(file, midi_pattern) ==
    IF file.readable
        THEN load_and_combine_patterns_from_content(file, midi_pattern)
        ELSE generate_combined_patterns(midi_pattern, <<>>)

----------------------------------------------------------------------------
(* The closures' work: play_sound, play_loop, play_midi_note *)

Output(dev, op, note, label, value) ==
    [dev |-> dev, op |-> op, note |-> note, label |-> label, value |-> value]

\* a variant that converts to u8 without the clamp
velocity_unclamped(velocity) == velocity % 256

\* (velocity.max(0.0).min(127.0)) as u8
velocity_byte(velocity) ==
    IF velocity < 0 THEN 0 ELSE IF velocity > 127 THEN 127 ELSE velocity

\* a variant of play_sound that unwraps the lookup: the worker panics
play_sound_unwrap(label, velocity) ==
    IF label \in sound_bank
        THEN << Output("audio", "sample", 0, label, velocity) >>
        ELSE << Output("log", "panic", 0, label, 0) >>

\* play_sound: the sample goes to a detached sink, or a warning is printed
play_sound(label, velocity) ==
    IF label \in sound_bank
        THEN << Output("audio", "sample", 0, label, velocity) >>
        ELSE << Output("log", "warning", 0, label, 0) >>

\* play_loop: the loop goes to a detached sink, or a warning is printed
play_loop(label, velocity) ==
    IF label \in DOMAIN loop_bank
        THEN << Output("audio", "loop", 0, label, velocity) >>
        ELSE << Output("log", "warning", 0, label, 0) >>

\* conn.send(&[0x90, note, velocity]) and conn.send(&[0x80, note, 0])
note_on(note, velocity) == Output("midi", "note_on", note, "", velocity_byte(velocity))
note_off(note) == Output("midi", "note_off", note, "", 0)

\* what running a closure to its end sends out
run_job(job) ==
    IF job.kind = "midi" THEN << note_on(job.note, job.velocity), note_off(job.note) >>
    ELSE IF job.kind = "sound" THEN play_sound(job.label, job.velocity)
    ELSE play_loop(job.label, job.velocity)

----------------------------------------------------------------------------
(* play_pattern_with_soundbank: the tick loop *)

total_eighth_beats == LoopBeats * N

\* a variant that takes the beat of the tick that follows
computed_next_beat(tick) == ((tick + 1) * Scale) \div N

\* a variant that divides by the number of quarter beats
computed_quarter_beat(tick) == (tick * Scale) \div (N \div 2)

\* i as f32 / 8.0, in beat units
computed_current_beat(tick) == (tick * Scale) \div N

\* a variant that takes every offset within the tick's interval
contains_interval(beats, beat) ==
    \E j \in 1..Len(beats) : beat <= beats[j] /\ beats[j] < beat + (Scale \div N)

\* Vec<f32>::contains: equality with some element
contains(beats, beat) == \E j \in 1..Len(beats) : beats[j] = beat

Job(kind, note, label, p) ==
    [kind |-> kind, note |-> note, label |-> label,
     velocity |-> p.velocity, duration |-> p.duration]

\* a variant with three independent ifs
trigger_jobs_all(p) ==
       (IF p.midi_note # None THEN << Job("midi", p.midi_note[1], "", p) >> ELSE << >>)
    \o (IF p.sound # None THEN << Job("sound", 0, p.sound[1], p) >> ELSE << >>)
    \o (IF p.loop_name # None THEN << Job("loop", 0, p.loop_name[1], p) >> ELSE << >>)

\* the if / else if / else if chain on midi_note, sound, loop_name: the
\* closures one matched pattern hands to the pool
trigger_jobs(p) ==
    IF p.midi_note # None THEN << Job("midi", p.midi_note[1], "", p) >>
    ELSE IF p.sound # None THEN << Job("sound", 0, p.sound[1], p) >>
    ELSE IF p.loop_name # None THEN << Job("loop", 0, p.loop_name[1], p) >>
    ELSE << >>

\* a variant that runs the closure on the calling thread
execute_inline(queue, job, c, tick, k) ==
    Append(queue, [cycle |-> c, tick |-> tick, idx |-> k, kind |-> job.kind,
                   note |-> job.note, label |-> job.label,
                   velocity |-> job.velocity, duration |-> job.duration,
                   status |-> "done", out |-> run_job(job)])

\* ThreadPool::execute: the closure is sent to the pool's queue, not run
pool_execute(queue, job, c, tick, k) ==
    Append(queue, [cycle |-> c, tick |-> tick, idx |-> k, kind |-> job.kind,
                   note |-> job.note, label |-> job.label,
                   velocity |-> job.velocity, duration |-> job.duration,
                   status |-> "queued", out |-> << >>])

RECURSIVE execute_all(_, _, _, _, _)
execute_all(queue, jobs, c, tick, k) ==
    IF jobs = << >> THEN queue
    ELSE execute_all(pool_execute(queue, Head(jobs), c, tick, k), Tail(jobs), c, tick, k)

\* for pattern in patterns.iter() { if pattern.beats.contains(..) { .. } }
RECURSIVE dispatch_from(_, _, _, _, _)
dispatch_from(queue, pats, k, c, tick) ==
    IF k > Len(pats) THEN queue
    ELSE dispatch_from(
            IF contains(Pat(pats[k]).beats, computed_current_beat(tick))
                THEN execute_all(queue, trigger_jobs(Pat(pats[k])), c, tick, k)
                ELSE queue,
            pats, k + 1, c, tick)

----------------------------------------------------------------------------
(* The playback thread (main.rs:617-643) *)

\* a variant that never tests the flag
loop_forever(flag) == TRUE

\* while running.load(Ordering::SeqCst)
loop_condition(flag) == flag

\* a variant that reads without the lock
read_lock_unchecked(writer) == TRUE

\* RwLock::read on the pattern collection: granted when no writer holds it
read_lock_free(writer) == ~writer

\* the ticks begun so far, over all cycles
ticks_run == IF cycle = 0 THEN 0 ELSE (cycle - 1) * total_eighth_beats + i

SchedCheck ==
    /\ pc = "check"
    /\ pc' = IF loop_condition(running) THEN "snapshot" ELSE "done"
    /\ UNCHANGED <<running, gui_ready, show_gui, patterns, patterns_writer,
                   reload_pc, reload_local, current_patterns, i, cycle,
                   current_beat, tasks, gui_pc, gui_local, cancelled_at,
                   main_pc, loader, clock, locking>>

\* let current_patterns = { patterns.read().unwrap().clone() }
SchedSnapshot ==
    /\ pc = "snapshot"
    /\ read_lock_free(patterns_writer)
    /\ current_patterns' = patterns
    /\ pc' = "wait"
    /\ UNCHANGED <<running, gui_ready, show_gui, patterns, patterns_writer,
                   reload_pc, reload_local, i, cycle, current_beat, tasks,
                   gui_pc, gui_local, cancelled_at,
                   main_pc, loader, clock, locking>>

\* a variant without the wait
wait_skipped(ready) == TRUE

\* while !playback_gui_ready.load(..) { sleep(100ms) }
wait_over(ready) == ready

\* the wait ends and play_pattern_with_soundbank is entered: a new pool, i = 0
SchedStartCycle ==
    /\ pc = "wait"
    /\ wait_over(gui_ready)
    /\ ticks_run < MaxTicks
    /\ cycle' = cycle + 1
    /\ i' = 0
    /\ pc' = "beat"
    /\ UNCHANGED <<running, gui_ready, show_gui, patterns, patterns_writer,
                   reload_pc, reload_local, current_patterns, current_beat,
                   tasks, gui_pc, gui_local, cancelled_at,
                   main_pc, loader, clock, locking>>

\* *current_beat.write().unwrap() = computed_current_beat
TickBeat ==
    /\ pc = "beat"
    /\ ticks_run < MaxTicks
    /\ current_beat' = computed_current_beat(i)
    /\ pc' = "dispatch"
    /\ UNCHANGED <<running, gui_ready, show_gui, patterns, patterns_writer,
                   reload_pc, reload_local, current_patterns, i, cycle, tasks,
                   gui_pc, gui_local, cancelled_at,
                   main_pc, loader, clock, locking>>

\* a variant that iterates the shared collection
tick_patterns_shared(snapshot, shared) == shared

\* the collection the ticks iterate: the `patterns` argument, which is
\* Arc::new(current_patterns), not the shared collection
tick_patterns(snapshot, shared) == snapshot

TickDispatch ==
    /\ pc = "dispatch"
    /\ tasks' = dispatch_from(tasks, tick_patterns(current_patterns, patterns), 1, cycle, i)
    /\ pc' = "sleep"
    /\ UNCHANGED <<running, gui_ready, show_gui, patterns, patterns_writer,
                   reload_pc, reload_local, current_patterns, i, cycle,
                   current_beat, gui_pc, gui_local, cancelled_at,
                   main_pc, loader, clock, locking>>

\* the sleep up to the tick's target time, then the next i; after the last
\* tick the function returns to the while loop
TickSleep ==
    /\ pc = "sleep"
    /\ i' = i + 1
    /\ pc' = IF i + 1 < total_eighth_beats THEN "beat" ELSE "check"
    /\ UNCHANGED <<running, gui_ready, show_gui, patterns, patterns_writer,
                   reload_pc, reload_local, current_patterns, cycle,
                   current_beat, tasks, gui_pc, gui_local, cancelled_at,
                   main_pc, loader, clock, locking>>

----------------------------------------------------------------------------
(* The Ctrl+C handler (main.rs:571-574) *)

\* the playback thread is inside play_pattern_with_soundbank
InCycle(at) == at \in {"beat", "dispatch", "sleep"}

\* where the playback thread stands: inside a cycle, between the test of the
\* flag and the cycle ("starting"), before the test, or after the loop
Place(at) ==
    IF InCycle(at) THEN "cycle"
    ELSE IF at \in {"snapshot", "wait"} THEN "starting"
    ELSE at

\* the process lives until main returns (main.rs:673)
process_alive == main_pc # "exited"

CtrlC ==
    /\ process_alive
    /\ running' = FALSE
    /\ cancelled_at' = IF running
                          THEN [set |-> TRUE, cycle |-> cycle, at |-> Place(pc)]
                          ELSE cancelled_at
    /\ UNCHANGED <<gui_ready, show_gui, patterns, patterns_writer, reload_pc,
                   reload_local, pc, current_patterns, i, cycle, current_beat,
                   tasks, gui_pc, gui_local, main_pc, loader, clock, locking>>

----------------------------------------------------------------------------
(* The pattern reload thread (main.rs:590-609) *)

ReloadIdle == [outcome |-> "none", combined |-> << >>, before |-> << >>]

\* RwLock::write on the pattern collection: granted when nobody holds it (a
\* reader holds it only within its own step)
write_lock_free(writer) == ~writer

\* `*patterns_write = combined_patterns` is not one machine write: between its
\* first and its last store the Vec is part new, part old
half_written(old, new) ==
    IF old = << >> \/ new = << >> THEN << >> ELSE << Head(new) >> \o Tail(old)

\* a variant that never looks at the flag
reload_forever(flag) == TRUE

\* if running_clone.load(Ordering::SeqCst)
reload_condition(flag) == flag

\* if running { if let Ok(file_content) = read_to_string(..) {..} else {..} } else { break }
ReloadPoll ==
    /\ process_alive
    /\ reload_pc = "poll"
    /\ IF reload_condition(running)
         THEN \E file \in FileContents :
                IF file.readable
                  THEN /\ reload_local' =
                            [outcome |-> IF file.parses THEN "ok" ELSE "parse_failed",
                             combined |-> load_and_combine_patterns_from_content(file, MidiPattern),
                             before |-> patterns]
                       /\ reload_pc' = "write"
                  ELSE /\ reload_local' = ReloadIdle
                       /\ reload_pc' = "sleep"
         ELSE /\ reload_pc' = "done"
              /\ UNCHANGED reload_local
    /\ UNCHANGED <<running, gui_ready, show_gui, patterns, patterns_writer, pc,
                   current_patterns, i, cycle, current_beat, tasks, gui_pc,
                   gui_local, cancelled_at,
                   main_pc, loader, clock, locking>>

\* let mut patterns_write = patterns_clone.write().unwrap(); the assignment begins
ReloadWriteBegin ==
    /\ process_alive
    /\ reload_pc = "write"
    /\ write_lock_free(patterns_writer)
    /\ patterns_writer' = TRUE
    /\ patterns' = half_written(patterns, reload_local.combined)
    /\ reload_pc' = "writing"
    /\ UNCHANGED <<running, gui_ready, show_gui, reload_local, pc,
                   current_patterns, i, cycle, current_beat, tasks, gui_pc,
                   gui_local, cancelled_at,
                   main_pc, loader, clock, locking>>

\* the assignment ends (combined_patterns is moved into the Vec) and the
\* guard is dropped
ReloadWriteEnd ==
    /\ process_alive
    /\ reload_pc = "writing"
    /\ patterns' = reload_local.combined
    /\ patterns_writer' = FALSE
    /\ reload_local' = ReloadIdle
    /\ reload_pc' = "sleep"
    /\ UNCHANGED <<running, gui_ready, show_gui, pc,
                   current_patterns, i, cycle, current_beat, tasks, gui_pc,
                   gui_local, cancelled_at,
                   main_pc, loader, clock, locking>>

\* thread::sleep(Duration::from_secs(3)), then the next iteration
ReloadSleep ==
    /\ process_alive
    /\ reload_pc = "sleep"
    /\ reload_pc' = "poll"
    /\ UNCHANGED <<running, gui_ready, show_gui, patterns, patterns_writer,
                   reload_local, pc,
                   current_patterns, i, cycle, current_beat, tasks, gui_pc,
                   gui_local, cancelled_at,
                   main_pc, loader, clock, locking>>

----------------------------------------------------------------------------
(* The visualizer (PatternVisualizerApp::update) and main's --no-gui branch *)

\* .filter(|pattern| pattern.sound.is_some()).cloned().collect()
sample_filter(pats) == SelectSeq(pats, LAMBDA id : Pat(id).sound # None)

\* a variant in which the visualizer takes the write guard and moves the
\* playhead on
write_guard_advance(beat) == beat + 1

\* self.current_beat.read().unwrap(): the shared guard lets update_grid copy
\* the value out and leaves the value under the lock as it was
read_guard(beat) == beat

\* update_grid: the playhead is read under its read lock; the value only
\* selects the colour of the cells
GuiUpdateGrid ==
    /\ main_pc = "run"
    /\ show_gui
    /\ gui_pc = "grid"
    /\ current_beat' = read_guard(current_beat)
    /\ gui_pc' = "patterns"
    /\ UNCHANGED <<running, gui_ready, show_gui, patterns, patterns_writer,
                   reload_pc, reload_local, pc, current_patterns, i, cycle,
                   tasks, gui_local, cancelled_at,
                   main_pc, loader, clock, locking>>

\* let sample_patterns = { self.patterns.read().unwrap() ... }
GuiReadPatterns ==
    /\ main_pc = "run"
    /\ gui_pc = "patterns"
    /\ read_lock_free(patterns_writer)
    /\ gui_local' = sample_filter(patterns)
    /\ gui_pc' = "ready"
    /\ UNCHANGED <<running, gui_ready, show_gui, patterns, patterns_writer,
                   reload_pc, reload_local, pc, current_patterns, i, cycle,
                   current_beat, tasks, cancelled_at,
                   main_pc, loader, clock, locking>>

\* self.gui_ready.store(true); sleep; request_repaint: update returns
GuiSetReady ==
    /\ main_pc = "run"
    /\ gui_pc = "ready"
    /\ gui_ready' = TRUE
    /\ gui_local' = << >>
    /\ gui_pc' = "grid"
    /\ UNCHANGED <<running, show_gui, patterns, patterns_writer, reload_pc,
                   reload_local, pc, current_patterns, i, cycle, current_beat,
                   tasks, cancelled_at,
                   main_pc, loader, clock, locking>>

\* } else { gui_ready.store(true, Ordering::SeqCst); }
MainNoGui ==
    /\ ~show_gui
    /\ main_pc = "run"
    /\ ~gui_ready
    /\ gui_ready' = TRUE
    /\ main_pc' = "join"
    /\ UNCHANGED <<running, show_gui, patterns, patterns_writer, reload_pc,
                   reload_local, pc, current_patterns, i, cycle, current_beat,
                   tasks, gui_pc, gui_local, cancelled_at, loader, clock, locking>>

\* eframe::run_native returns: the window was closed, or it could not be
\* opened and the result is an error (main.rs:656-663)
GuiClose ==
    /\ show_gui
    /\ main_pc = "run"
    /\ gui_pc = "grid"
    /\ main_pc' = "join"
    /\ UNCHANGED <<running, gui_ready, show_gui, patterns, patterns_writer,
                   reload_pc, reload_local, pc, current_patterns, i, cycle,
                   current_beat, tasks, gui_pc, gui_local, cancelled_at, loader, clock, locking>>

\* playback_handle.join() returns and main returns Ok(()): the process ends
\* and takes every other thread with it (main.rs:668-673)
MainJoin ==
    /\ main_pc = "join"
    /\ pc = "done"
    /\ main_pc' = "exited"
    /\ UNCHANGED <<running, gui_ready, show_gui, patterns, patterns_writer,
                   reload_pc, reload_local, pc, current_patterns, i, cycle,
                   current_beat, tasks, gui_pc, gui_local, cancelled_at, loader, clock, locking>>

----------------------------------------------------------------------------
(* The pool workers *)

\* the workers of pool c that are inside a closure (a MIDI note being held)
pool_busy(ts, c) ==
    Cardinality({u \in 1..Len(ts) : ts[u].cycle = c /\ ts[u].status = "on"})

\* a worker of the pool takes the oldest closure of its queue when it is free
takes_job(ts, t) ==
    /\ ts[t].status = "queued"
    /\ \A u \in 1..(t - 1) : ts[u].cycle = ts[t].cycle => ts[u].status # "queued"
    /\ pool_busy(ts, ts[t].cycle) < PoolSize

WorkerPlaySound ==
    /\ process_alive
    /\ \E t \in 1..Len(tasks) :
        /\ takes_job(tasks, t)
        /\ tasks[t].kind = "sound"
        /\ tasks' = [tasks EXCEPT ![t].status = "done",
                                  ![t].out = play_sound(tasks[t].label, tasks[t].velocity)]
    /\ UNCHANGED <<running, gui_ready, show_gui, patterns, patterns_writer,
                   reload_pc, reload_local, pc, current_patterns, i, cycle,
                   current_beat, gui_pc, gui_local, cancelled_at,
                   main_pc, loader, clock, locking>>

WorkerPlayLoop ==
    /\ process_alive
    /\ \E t \in 1..Len(tasks) :
        /\ takes_job(tasks, t)
        /\ tasks[t].kind = "loop"
        /\ tasks' = [tasks EXCEPT ![t].status = "done",
                                  ![t].out = play_loop(tasks[t].label, tasks[t].velocity)]
    /\ UNCHANGED <<running, gui_ready, show_gui, patterns, patterns_writer,
                   reload_pc, reload_local, pc, current_patterns, i, cycle,
                   current_beat, gui_pc, gui_local, cancelled_at,
                   main_pc, loader, clock, locking>>

\* play_midi_note up to thread::sleep(duration): Note On under the mutex
WorkerNoteOn ==
    /\ process_alive
    /\ \E t \in 1..Len(tasks) :
        /\ takes_job(tasks, t)
        /\ tasks[t].kind = "midi"
        /\ tasks' = [tasks EXCEPT ![t].status = "on",
                                  ![t].out = << note_on(tasks[t].note, tasks[t].velocity) >>]
    /\ UNCHANGED <<running, gui_ready, show_gui, patterns, patterns_writer,
                   reload_pc, reload_local, pc, current_patterns, i, cycle,
                   current_beat, gui_pc, gui_local, cancelled_at,
                   main_pc, loader, clock, locking>>

\* thread::sleep(Duration::from_secs_f32(duration)): from_secs_f32 panics on
\* a negative value
sleep_panics(duration) == duration < 0

\* play_midi_note after the sleep: Note Off under the mutex, unless the
\* sleep has panicked and ended the closure
WorkerNoteOff ==
    /\ process_alive
    /\ \E t \in 1..Len(tasks) :
        /\ tasks[t].status = "on"
        /\ tasks' = IF sleep_panics(tasks[t].duration)
                        THEN [tasks EXCEPT ![t].status = "panicked"]
                        ELSE [tasks EXCEPT ![t].status = "done",
                                           ![t].out = Append(@, note_off(tasks[t].note))]
    /\ UNCHANGED <<running, gui_ready, show_gui, patterns, patterns_writer,
                   reload_pc, reload_local, pc, current_patterns, i, cycle,
                   current_beat, gui_pc, gui_local, cancelled_at,
                   main_pc, loader, clock, locking>>

----------------------------------------------------------------------------
(* SoundBank::new and LoopBank::new: loading a directory through a pool *)

\* a directory entry: its stem, the stem split at '_', its extension, whether
\* rodio decodes it and whether its path is valid UTF-8
File(stem, parts, ext, decodes, utf8) ==
    [stem |-> stem, parts |-> parts, ext |-> ext, decodes |-> decodes, utf8 |-> utf8]

Files ==
    << File("bd", <<"bd">>, "wav", TRUE, TRUE),
       File("bad", <<"bad">>, "wav", FALSE, TRUE),
       File("120_4_groove", <<"120", "4", "groove">>, "wav", TRUE, TRUE),
       File("90_8_groove", <<"90", "8", "groove">>, "wav", TRUE, TRUE),
       File("120_x_beat", <<"120", "x", "beat">>, "wav", TRUE, TRUE),
       File("fast_4_loop", <<"fast", "4", "loop">>, "wav", TRUE, TRUE),
       File("notes", <<"notes">>, "txt", TRUE, TRUE),
       File("raw", <<"raw">>, "wav", TRUE, FALSE) >>

\* str::parse::<u32>
parse_u32(str) ==
    CASE str = "120" -> Some(120)
      [] str = "90" -> Some(90)
      [] str = "4" -> Some(4)
      [] str = "8" -> Some(8)
      [] OTHER -> None

\* an entry of a bank: the decoded samples (named by the file they come
\* from) and, for a loop, the tempo read from the file name
Entry(label, pcm, tempo) == [label |-> label, pcm |-> pcm, tempo |-> tempo]

\* load_sample, with the label SoundBank::new takes from the file stem
load_sample(file) ==
    IF file.decodes THEN Some(Entry(file.stem, file.stem, None)) ELSE None

\* load_loop: decode, split the stem at '_', three parts, parts[0] a u32
load_loop(file) ==
    IF ~file.decodes THEN None
    ELSE IF Len(file.parts) # 3 THEN None
    ELSE IF parse_u32(file.parts[1]) = None THEN None
    ELSE Some(Entry(file.parts[3], file.stem, parse_u32(file.parts[1])))

\* ThreadPool::new(4) of SoundBank::new, ThreadPool::new(16) of LoopBank::new
loader_pool_size(kind) == IF kind = "sound" THEN 4 ELSE 16

LoaderIdle ==
    [kind |-> "none", pc |-> "returned", paths |-> << >>, next |-> 1,
     jobs |-> << >>, results |-> << >>, data |-> << >>]

\* the call SoundBank::new(directory) or LoopBank::new(directory)
LoaderCall(kind, paths) ==
    [kind |-> kind, pc |-> "paths", paths |-> paths, next |-> 1,
     jobs |-> << >>, results |-> << >>, data |-> << >>]

\* data.insert(label, data_entry)
insert(data, entry) ==
    [l \in DOMAIN data \cup {entry.label} |->
        IF l = entry.label THEN entry ELSE data[l]]

\* for (label, data_entry) in results.drain(..) { data.insert(..) }
RECURSIVE collect(_, _)
collect(data, results) ==
    IF results = << >> THEN data
    ELSE collect(insert(data, Head(results)), Tail(results))

\* a variant of pool.join() that does not wait
pool_join_skipped(jobs) == TRUE

\* pool.join(): no job is queued or active
pool_join(jobs) == \A j \in 1..Len(jobs) : jobs[j].status = "done"

\* everything but the loader
program_vars ==
    <<running, gui_ready, show_gui, patterns, patterns_writer, reload_pc,
      reload_local, pc, current_patterns, i, cycle, current_beat, tasks,
      gui_pc, gui_local, cancelled_at, main_pc, clock, locking>>

\* one turn of `for path in paths`: a .wav file goes to the pool, a path
\* that is not UTF-8 ends the call with an error, anything else is skipped
LoaderForPath ==
    /\ loader.pc = "paths"
    /\ loader.next <= Len(loader.paths)
    /\ LET file == Files[loader.paths[loader.next]] IN
        IF file.ext # "wav"
            THEN loader' = [loader EXCEPT !.next = @ + 1]
        ELSE IF ~file.utf8
            THEN loader' = [loader EXCEPT !.pc = "failed"]
        ELSE loader' = [loader EXCEPT
                            !.next = @ + 1,
                            !.jobs = Append(@, [path |-> loader.paths[loader.next],
                                                status |-> "queued"])]
    /\ UNCHANGED program_vars

\* a worker of the pool takes the oldest queued closure: println!("Loading ..")
LoaderWorkerStart ==
    /\ loader.pc \in {"paths", "collect", "returned"}
    /\ \E j \in 1..Len(loader.jobs) :
        /\ loader.jobs[j].status = "queued"
        /\ \A k \in 1..(j - 1) : loader.jobs[k].status # "queued"
        /\ Cardinality({k \in 1..Len(loader.jobs) : loader.jobs[k].status = "active"})
                < loader_pool_size(loader.kind)
        /\ loader' = [loader EXCEPT !.jobs[j].status = "active"]
    /\ UNCHANGED program_vars

\* the closure loads its file and pushes the result under the mutex, or
\* prints the failure
LoaderWorkerFinish ==
    /\ loader.pc \in {"paths", "collect", "returned"}
    /\ \E j \in 1..Len(loader.jobs) :
        /\ loader.jobs[j].status = "active"
        /\ LET file == Files[loader.jobs[j].path]
               loaded == IF loader.kind = "sound" THEN load_sample(file)
                                                  ELSE load_loop(file)
           IN loader' = [loader EXCEPT
                            !.jobs[j].status = "done",
                            !.results = IF loaded = None THEN @ ELSE Append(@, loaded[1])]
    /\ UNCHANGED program_vars

\* the for loop is over and pool.join() returns
LoaderJoin ==
    /\ loader.pc = "paths"
    /\ loader.next > Len(loader.paths)
    /\ pool_join(loader.jobs)
    /\ loader' = [loader EXCEPT !.pc = "collect"]
    /\ UNCHANGED program_vars

\* the results are drained into the map and the bank is returned
LoaderCollect ==
    /\ loader.pc = "collect"
    /\ loader' = [loader EXCEPT !.data = collect(@, loader.results),
                                !.results = << >>,
                                !.pc = "returned"]
    /\ UNCHANGED program_vars

----------------------------------------------------------------------------
(* The whole program without its pool workers *)

\* the clock is not followed
ClockIdle ==
    [loop_beats |-> 0, start |-> 0, now |-> 0, began |-> 0, requested |-> 0,
     prompt |-> TRUE, order |-> << >>]

\* the locks are not followed
LockingIdle == [at |-> << >>, held |-> << >>]

InitThreads ==
    /\ running = TRUE
    /\ gui_ready = FALSE
    /\ patterns_writer = FALSE
    /\ reload_pc = "poll"
    /\ reload_local = ReloadIdle
    /\ pc = "check"
    /\ current_patterns = << >>
    /\ i = 0
    /\ cycle = 0
    /\ current_beat = 0
    /\ tasks = << >>
    /\ gui_pc = "grid"
    /\ gui_local = << >>
    /\ cancelled_at = [set |-> FALSE, cycle |-> 0, at |-> "check"]
    /\ main_pc = "run"
    /\ loader = LoaderIdle
    /\ clock = ClockIdle
    /\ locking = LockingIdle

\* the initial load of patterns.json (main.rs:580-584)
Init ==
    /\ InitThreads
    /\ show_gui \in BOOLEAN
    /\ \E file \in FileContents : patterns = load_and_combine_patterns(file, MidiPattern)

Playback == SchedCheck \/ SchedSnapshot \/ SchedStartCycle \/ TickBeat
                \/ TickDispatch \/ TickSleep

Reload == ReloadPoll \/ ReloadWriteBegin \/ ReloadWriteEnd \/ ReloadSleep

Gui == GuiUpdateGrid \/ GuiReadPatterns \/ GuiSetReady \/ GuiClose \/ MainNoGui

Next == Playback \/ Reload \/ Gui \/ CtrlC \/ MainJoin

Spec == Init /\ [][Next]_vars

\* The reload thread is scheduled fairly: while it can take a step it
\* eventually takes one (its sleep of main.rs:608 ends).  Nothing is assumed
\* of the other threads, of Ctrl+C or of the window.
SpecFair == Spec /\ WF_vars(Reload)

----------------------------------------------------------------------------
(* The playback thread with its pool workers, in a run with --no-gui, while *)
(* the reload thread has not run yet                                        *)

\* a run with --no-gui
InitPlay ==
    /\ Init
    /\ show_gui = FALSE

Workers == WorkerPlaySound \/ WorkerPlayLoop \/ WorkerNoteOn \/ WorkerNoteOff

NextPlay == Playback \/ Workers \/ MainNoGui \/ CtrlC \/ MainJoin

SpecPlay == InitPlay /\ [][NextPlay]_vars

----------------------------------------------------------------------------
(* Every thread of the program together: the playback thread, its pool      *)
(* workers, the reload thread, the visualizer, the Ctrl+C handler and main   *)

\* the ticks followed while every thread runs
MaxTicksAll == 3

\* the write of the playhead, for the first MaxTicksAll ticks
TickBeatAll ==
    /\ ticks_run < MaxTicksAll
    /\ TickBeat

PlaybackAll == SchedCheck \/ SchedSnapshot \/ SchedStartCycle \/ TickBeatAll
                \/ TickDispatch \/ TickSleep

NextAll == PlaybackAll \/ Workers \/ Reload \/ Gui \/ CtrlC \/ MainJoin

SpecAll == Init /\ [][NextAll]_vars

----------------------------------------------------------------------------
(* SoundBank::new(directory) and LoopBank::new(directory), called by main    *)
(* before any thread is started, for every directory of at most MaxFiles    *)
(* entries                                                                  *)

RECURSIVE Directories(_)
Directories(n) ==
    IF n = 0 THEN { << >> }
    ELSE Directories(n - 1) \cup
         { Append(d, f) : d \in { e \in Directories(n - 1) : Len(e) = n - 1 },
                          f \in 1..Len(Files) }

\* read_dir gives every entry once, in any order
Listings == { d \in Directories(MaxFiles) :
                \A a, b \in 1..Len(d) : a # b => d[a] # d[b] }

InitLoad ==
    /\ running = TRUE
    /\ gui_ready = FALSE
    /\ show_gui = FALSE
    /\ patterns = << >>
    /\ patterns_writer = FALSE
    /\ reload_pc = "poll"
    /\ reload_local = ReloadIdle
    /\ pc = "check"
    /\ current_patterns = << >>
    /\ i = 0
    /\ cycle = 0
    /\ current_beat = 0
    /\ tasks = << >>
    /\ gui_pc = "grid"
    /\ gui_local = << >>
    /\ cancelled_at = [set |-> FALSE, cycle |-> 0, at |-> "check"]
    /\ main_pc = "load"
    /\ \E kind \in {"sound", "loop"}, paths \in Listings :
            loader = LoaderCall(kind, paths)
    /\ clock = ClockIdle
    /\ locking = LockingIdle

NextLoad == LoaderForPath \/ LoaderWorkerStart \/ LoaderWorkerFinish
                \/ LoaderJoin \/ LoaderCollect

SpecLoad == InitLoad /\ [][NextLoad]_vars

----------------------------------------------------------------------------
(* play_midi_note for every velocity and duration: patterns.json holds one  *)
(* MIDI pattern at beat 0, the run is with --no-gui and tick 0 of the first *)
(* cycle has just been dispatched                                           *)

InitNote ==
    /\ running = TRUE
    /\ gui_ready = TRUE
    /\ show_gui = FALSE
    /\ \E k \in 1..Len(Note_patterns) :
            patterns = load_and_combine_patterns(FileContent(TRUE, TRUE, JsonNote(k)),
                                                 MidiPattern)
    /\ patterns_writer = FALSE
    /\ reload_pc = "poll"
    /\ reload_local = ReloadIdle
    /\ pc = "sleep"
    /\ current_patterns = patterns
    /\ i = 0
    /\ cycle = 1
    /\ current_beat = 0
    /\ tasks = dispatch_from(<< >>, patterns, 1, 1, 0)
    /\ gui_pc = "grid"
    /\ gui_local = << >>
    /\ cancelled_at = [set |-> FALSE, cycle |-> 0, at |-> "check"]
    /\ main_pc = "join"
    /\ loader = LoaderIdle
    /\ clock = ClockIdle
    /\ locking = LockingIdle

NextNote == WorkerNoteOn \/ WorkerNoteOff \/ WorkerPlayLoop

SpecNote == InitNote /\ [][NextNote]_vars

----------------------------------------------------------------------------
(* play_pattern_with_soundbank with its clock: one cycle of loop_beats beats, *)
(* in a run with --no-gui.  Time is counted in integer units, TickUnits to a  *)
(* tick; the dispatch of a tick takes up to MaxOverhead units and a sleep     *)
(* ends up to MaxLate units after the time asked for.                         *)

\* a variant that sleeps one tick duration whatever time has passed
remaining_fixed(target_time, elapsed) == TickUnits

\* let remaining = target_time - elapsed
remaining(target_time, elapsed) == target_time - elapsed

\* a variant that steps over the ticks whose time has passed
for_next_by_clock(tick, elapsed) ==
    IF elapsed \div TickUnits > tick + 1 THEN elapsed \div TickUnits ELSE tick + 1

\* for i in 0..total_eighth_beats: the index that follows, whatever the time
for_next(tick, elapsed) == tick + 1

\* let start_time = Instant::now(), with the first tick about to begin
InitTime ==
    /\ running = TRUE
    /\ gui_ready = TRUE
    /\ show_gui = FALSE
    /\ patterns = load_and_combine_patterns(FileContent(TRUE, TRUE, JsonA), MidiPattern)
    /\ patterns_writer = FALSE
    /\ reload_pc = "poll"
    /\ reload_local = ReloadIdle
    /\ pc = "beat"
    /\ current_patterns = patterns
    /\ i = 0
    /\ cycle = 1
    /\ current_beat = 0
    /\ tasks = << >>
    /\ gui_pc = "grid"
    /\ gui_local = << >>
    /\ cancelled_at = [set |-> FALSE, cycle |-> 0, at |-> "check"]
    /\ main_pc = "join"
    /\ loader = LoaderIdle
    /\ locking = LockingIdle
    /\ \E beats \in 1..MaxLoopBeats, t0 \in 0..MaxLate :
            clock = [loop_beats |-> beats, start |-> t0, now |-> t0, began |-> t0,
                     requested |-> 0, prompt |-> TRUE, order |-> << >>]

\* the head of a tick: the playhead is written
TimedBeat ==
    /\ pc = "beat"
    /\ current_beat' = computed_current_beat(i)
    /\ clock' = [clock EXCEPT !.began = clock.now, !.order = Append(@, i)]
    /\ pc' = "dispatch"
    /\ UNCHANGED <<running, gui_ready, show_gui, patterns, patterns_writer,
                   reload_pc, reload_local, current_patterns, i, cycle, tasks,
                   gui_pc, gui_local, cancelled_at, main_pc, loader, locking>>

\* the for loop over the patterns, which takes some time
TimedDispatch ==
    /\ pc = "dispatch"
    /\ tasks' = dispatch_from(tasks, tick_patterns(current_patterns, patterns), 1, cycle, i)
    /\ \E overhead \in 0..MaxOverhead :
            clock' = [clock EXCEPT !.now = @ + overhead,
                                   !.prompt = @ /\ overhead < TickUnits]
    /\ pc' = "sleep"
    /\ UNCHANGED <<running, gui_ready, show_gui, patterns, patterns_writer,
                   reload_pc, reload_local, current_patterns, i, cycle,
                   current_beat, gui_pc, gui_local, cancelled_at,
                   main_pc, loader, locking>>

\* elapsed, target_time, remaining; if remaining > 0.0 { thread::sleep(..) };
\* then the next i, or the return of the function
TimedSleep ==
    /\ pc = "sleep"
    /\ LET elapsed == clock.now - clock.start
           target_time == (i + 1) * TickUnits
           left == remaining(target_time, elapsed)
       IN /\ IF left > 0
                THEN \E late \in 0..MaxLate :
                        clock' = [clock EXCEPT !.now = @ + left + late,
                                               !.requested = left,
                                               !.prompt = @ /\ late < TickUnits]
                ELSE clock' = [clock EXCEPT !.requested = 0]
          /\ i' = for_next(i, elapsed)
          /\ pc' = IF for_next(i, elapsed) < clock.loop_beats * N THEN "beat" ELSE "returned"
    /\ UNCHANGED <<running, gui_ready, show_gui, patterns, patterns_writer,
                   reload_pc, reload_local, current_patterns, cycle,
                   current_beat, tasks, gui_pc, gui_local, cancelled_at,
                   main_pc, loader, locking>>

NextTime == TimedBeat \/ TimedDispatch \/ TimedSleep \/ CtrlC

SpecTime == InitTime /\ [][NextTime]_vars

----------------------------------------------------------------------------
(* The locks: the RwLock of the pattern collection, the RwLock of the        *)
(* playhead and the Mutex of the MIDI connection, and what each thread does  *)
(* with them.  A thread's part is the sequence of its lock operations, with   *)
(* one "step" for what it does holding nothing; `to` gives the places it can  *)
(* go on to.                                                                  *)

Acquire(lock, mode, to) == [op |-> "acquire", lock |-> lock, mode |-> mode, to |-> to]
Release(lock, to) == [op |-> "release", lock |-> lock, mode |-> "none", to |-> to]
Step(to) == [op |-> "step", lock |-> "none", mode |-> "none", to |-> to]

\* the playback thread: patterns.read() and the clone in a block of their
\* own (main.rs:620-623); then for every tick beat_lock = current_beat.write()
\* in a block of its own (main.rs:273-276), the dispatch and the sleep; after
\* the last tick the next cycle
playback_locks ==
    << Acquire("patterns", "read", {2}),
       Release("patterns", {3}),
       Acquire("current_beat", "write", {4}),
       Release("current_beat", {5}),
       Step({3, 1}) >>

\* the reload thread: the file is read with no lock held; on success
\* patterns_clone.write() until the end of the if let block (main.rs:598-601);
\* then the sleep
reload_locks ==
    << Step({2, 4}),
       Acquire("patterns", "write", {3}),
       Release("patterns", {4}),
       Step({1}) >>

\* a variant of update in which the guard of the playhead lives to the end
\* of the frame
visualizer_locks_nested ==
    << Acquire("current_beat", "read", {2}),
       Acquire("patterns", "read", {3}),
       Release("patterns", {4}),
       Release("current_beat", {5}),
       Step({1}) >>

\* PatternVisualizerApp::update: update_grid takes current_beat.read() and
\* drops it on return (main.rs:428-431); sample_patterns is built under
\* patterns.read() in a block of its own (main.rs:452-460); the drawing and
\* the sleep hold nothing
visualizer_locks ==
    << Acquire("current_beat", "read", {2}),
       Release("current_beat", {3}),
       Acquire("patterns", "read", {4}),
       Release("patterns", {5}),
       Step({1}) >>

\* a variant of play_midi_note that locks once and keeps the guard over the
\* sleep
play_midi_note_locks_held ==
    << Step({2}),
       Acquire("midi_conn", "lock", {3}),
       Step({4}),
       Step({5, 1}),
       Step({6}),
       Release("midi_conn", {1}) >>

\* a pool worker running play_midi_note: it takes a closure; Note On inside
\* if let Ok(mut conn) = midi_conn.lock() { .. } (main.rs:218-221); the sleep
\* (main.rs:224), which ends the closure when it panics; Note Off inside a
\* second if let (main.rs:227-230)
play_midi_note_locks ==
    << Step({2}),
       Acquire("midi_conn", "lock", {3}),
       Release("midi_conn", {4}),
       Step({5, 1}),
       Acquire("midi_conn", "lock", {6}),
       Release("midi_conn", {1}) >>

\* the place of thread::sleep(duration) in play_midi_note
SleepPlace == 4

Threads == {"playback", "reload", "visualizer", "worker1", "worker2"}

MidiWorkers == {"worker1", "worker2"}

LocksOf(thread) ==
    CASE thread = "playback" -> playback_locks
      [] thread = "reload" -> reload_locks
      [] thread = "visualizer" -> visualizer_locks
      [] OTHER -> play_midi_note_locks

\* what thread is about to do
Doing(thread) == LocksOf(thread)[locking.at[thread]]

\* the modes in which other threads hold lock
HeldByOthers(thread, lock) ==
    {h.mode : h \in UNION {{g \in locking.held[u] : g.lock = lock} :
                                u \in Threads \ {thread}}}

\* RwLock::read waits while a writer holds the lock; RwLock::write and
\* Mutex::lock wait while anyone holds it; a thread asking again for a lock
\* it holds waits for itself
Grantable(thread, lock, mode) ==
    /\ \A g \in locking.held[thread] : g.lock # lock
    /\ IF mode = "read" THEN HeldByOthers(thread, lock) \subseteq {"read"}
                        ELSE HeldByOthers(thread, lock) = {}

InitLock ==
    /\ running = TRUE
    /\ gui_ready = TRUE
    /\ show_gui = TRUE
    /\ patterns = load_and_combine_patterns(FileContent(TRUE, TRUE, JsonA), MidiPattern)
    /\ patterns_writer = FALSE
    /\ reload_pc = "poll"
    /\ reload_local = ReloadIdle
    /\ pc = "check"
    /\ current_patterns = << >>
    /\ i = 0
    /\ cycle = 0
    /\ current_beat = 0
    /\ tasks = << >>
    /\ gui_pc = "grid"
    /\ gui_local = << >>
    /\ cancelled_at = [set |-> FALSE, cycle |-> 0, at |-> "check"]
    /\ main_pc = "run"
    /\ loader = LoaderIdle
    /\ clock = ClockIdle
    /\ locking = [at |-> [t \in Threads |-> 1], held |-> [t \in Threads |-> {}]]

\* thread does what it is about to do and goes on
LockStep(thread) ==
    /\ \E to \in Doing(thread).to :
        LET doing == Doing(thread)
            now_held ==
                CASE doing.op = "acquire" ->
                        locking.held[thread] \cup {[lock |-> doing.lock, mode |-> doing.mode]}
                  [] doing.op = "release" ->
                        {g \in locking.held[thread] : g.lock # doing.lock}
                  [] OTHER -> locking.held[thread]
        IN /\ doing.op = "acquire" => Grantable(thread, doing.lock, doing.mode)
           /\ locking' = [at |-> [locking.at EXCEPT ![thread] = to],
                          held |-> [locking.held EXCEPT ![thread] = now_held]]
    /\ UNCHANGED <<running, gui_ready, show_gui, patterns, patterns_writer,
                   reload_pc, reload_local, pc, current_patterns, i, cycle,
                   current_beat, tasks, gui_pc, gui_local, cancelled_at,
                   main_pc, loader, clock>>

PlaybackLocks == LockStep("playback")
ReloadLocks == LockStep("reload")
VisualizerLocks == LockStep("visualizer")
Worker1Locks == LockStep("worker1")
Worker2Locks == LockStep("worker2")

NextLock == PlaybackLocks \/ ReloadLocks \/ VisualizerLocks \/ Worker1Locks
                \/ Worker2Locks

SpecLock == InitLock /\ [][NextLock]_vars

\* nobody holds the pattern lock
PatternLockFree == \A t \in Threads : \A g \in locking.held[t] : g.lock # "patterns"

\* Every thread is scheduled, and a thread that asks for a lock which comes
\* free again and again gets it.  The readers of the pattern lock hold it for
\* the time of one clone, once a cycle and once a frame: they do not overlap
\* for ever, the lock is free again and again.
SpecLockFair ==
    /\ SpecLock
    /\ \A t \in Threads : SF_vars(LockStep(t))
    /\ []<>PatternLockFree

----------------------------------------------------------------------------
(* Properties *)

\* every collection a load can build: the complete collections
CompleteCollections ==
    { load_and_combine_patterns(file, MidiPattern) : file \in FileContents }

\* the closures a step of the playback thread has added to the pools
NewTasks == SubSeq(tasks', Len(tasks) + 1, Len(tasks'))

\* a step of the playback thread inside play_pattern_with_soundbank
TickStep == InCycle(pc) /\ pc' # pc

\* C1: dispatch is non-blocking for the scheduler.  At the step from tick i
\* to tick i+1 the playback thread can always take its step, whatever the
\* closures of the pools are doing; its steps in a cycle only add closures to
\* a queue, none of them started, and change no closure handed over earlier.
C1_DispatchNonBlocking ==
    /\ [](pc = "sleep" => ENABLED TickSleep)
    /\ [][TickStep =>
            /\ Len(tasks') >= Len(tasks)
            /\ \A t \in 1..Len(tasks) : tasks'[t] = tasks[t]
            /\ \A t \in 1..Len(NewTasks) :
                    NewTasks[t].status = "queued" /\ NewTasks[t].out = << >>]_vars

\* a MIDI note of tick 2 is still held, its Note Off not sent, while the
\* playback thread has gone on to tick 6 of the same cycle
C1_Witness ==
    \E t \in 1..Len(tasks) :
        /\ tasks[t].kind = "midi" /\ tasks[t].status = "on"
        /\ tasks[t].cycle = cycle /\ tasks[t].tick = 2
        /\ i = 6 /\ pc = "dispatch"

\* C2: replacing the pattern collection is atomic for every reader.  What the
\* playback thread has read as its snapshot is one complete collection, and
\* what the visualizer has read is the sample patterns of one complete
\* collection: never a mix of the old and the new one.
C2_ReplaceAtomic ==
    /\ \/ cycle = 0 /\ pc \in {"check", "snapshot", "done"} /\ current_patterns = << >>
       \/ current_patterns \in CompleteCollections
    /\ gui_pc = "ready" =>
            gui_local \in { sample_filter(c) : c \in CompleteCollections }

\* the reload thread is in the middle of its assignment, the collection is
\* part old, part new, and both readers stand before their read
C2_Witness ==
    /\ patterns_writer
    /\ patterns \notin CompleteCollections
    /\ pc = "snapshot"
    /\ gui_pc = "patterns"

\* C3: a poll that fails, because the file cannot be read or because its
\* content cannot be parsed, leaves the collection as it was before the poll.
C3_FailedPollKeepsPatterns ==
    [][/\ (reload_pc = "poll" /\ reload_pc' = "sleep") => patterns' = patterns
       /\ (reload_pc = "writing" /\ reload_pc' = "sleep"
                /\ reload_local.outcome = "parse_failed")
                => patterns' = reload_local.before]_vars

\* C4, as claimed: whenever cancellation is requested, no cycle begins
\* after the request.
C4_NoCycleAfterCancel ==
    cancelled_at.set => cycle = cancelled_at.cycle

\* C4, amended: a cancellation requested while a cycle is in progress, or
\* before the playback thread tests the flag, is followed by no further
\* cycle; one requested between the test of the flag and the start of the
\* cycle (during the snapshot or the wait for the ready signal) is followed
\* by that one cycle and no other.  The thread leaves its loop only between
\* cycles, after the last tick of the cycle in progress.
C4_StopsAfterCurrentCycle ==
    /\ cancelled_at.set =>
            cycle <= cancelled_at.cycle + (IF cancelled_at.at = "starting" THEN 1 ELSE 0)
    /\ pc = "done" => ~running /\ (cycle = 0 \/ i = total_eighth_beats)

\* cancelled in the middle of the first cycle, the playback thread has run
\* the remaining ticks and left its loop
C4_Witness ==
    /\ cancelled_at.set /\ cancelled_at.at = "cycle" /\ cancelled_at.cycle = 1
    /\ pc = "done" /\ cycle = 1 /\ i = total_eighth_beats

\* C5: at every tick i the playhead is set to i/N before the triggers of
\* tick i are dispatched; the values written rise strictly within a cycle and
\* start again from 0 with the next cycle; the playhead always holds i/N for
\* some 0 <= i < loop_beats * N.
C5_PlayheadBeforeDispatch ==
    /\ [](\E k \in 0..(LoopBeats * N - 1) : current_beat * N = k * Scale)
    /\ [](pc = "dispatch" => current_beat * N = i * Scale)
    /\ [][/\ (pc = "beat" /\ pc' = "dispatch") =>
                IF i = 0 THEN current_beat' = 0 ELSE current_beat' > current_beat
          /\ Len(tasks') > Len(tasks) =>
                /\ pc = "dispatch" /\ current_beat * N = i * Scale
                /\ \A t \in 1..Len(NewTasks) : NewTasks[t].tick = i]_vars

\* the second cycle has started again from 0 and stands at its tick 1
C5_Witness ==
    cycle = 2 /\ i = 1 /\ pc = "dispatch" /\ current_beat * N = Scale

\* a pattern carries a trigger when one of its three fields is set
HasTrigger(p) == p.midi_note # None \/ p.sound # None \/ p.loop_name # None

\* C6: in every tick i the scheduler hands over one closure for each pattern
\* of the collection it is playing that has a trigger and whose beats hold
\* i/N by equality, once even when the offset is listed twice, and none for
\* any other pattern.
C6_ExactMatchOncePerPattern ==
    [][(pc = "dispatch" /\ pc' = "sleep") =>
        /\ \A t \in 1..Len(NewTasks) :
                /\ NewTasks[t].idx \in 1..Len(current_patterns)
                /\ NewTasks[t].tick = i /\ NewTasks[t].cycle = cycle
        /\ \A k \in 1..Len(current_patterns) :
                Cardinality({t \in 1..Len(NewTasks) : NewTasks[t].idx = k})
                    = IF /\ HasTrigger(Pat(current_patterns[k]))
                          /\ \E j \in 1..Len(Pat(current_patterns[k]).beats) :
                                Pat(current_patterns[k]).beats[j] * N = i * Scale
                        THEN 1 ELSE 0]_vars

\* tick 4 of the first cycle is dispatched: the pattern that lists 0.5 twice
\* has one closure, the pattern with an offset between two ticks has one
\* closure in the whole cycle so far
C6_Witness ==
    /\ cycle = 1 /\ i = 4 /\ pc = "sleep"
    /\ Len(current_patterns) >= 2
    /\ Pat(current_patterns[1]).beats = <<8, 8>>
    /\ Pat(current_patterns[2]).beats = <<8, 3>>
    /\ Cardinality({t \in 1..Len(tasks) : tasks[t].idx = 1 /\ tasks[t].tick = 4}) = 1
    /\ Cardinality({t \in 1..Len(tasks) : tasks[t].idx = 2}) = 1

\* the closure t was made from the pattern p
FromPattern(t, p) ==
    /\ t.velocity = p.velocity /\ t.duration = p.duration
    /\ t.kind = "midi" => p.midi_note = Some(t.note)
    /\ t.kind = "sound" => p.sound = Some(t.label)
    /\ t.kind = "loop" => p.loop_name = Some(t.label)

\* C7: a matched pattern causes at most one action, by the precedence MIDI
\* note, then sample, then loop: its closure plays the MIDI note alone when
\* midi_note is set, else the sample alone when sound is set, else the loop
\* alone; a pattern with none of the three set gets no closure, and no
\* pattern gets two closures in one tick.
C7_TriggerPrecedence ==
    /\ \A t \in 1..Len(tasks) :
        LET p == Pat(patterns[tasks[t].idx]) IN
        /\ HasTrigger(p)
        /\ FromPattern(tasks[t], p)
        /\ tasks[t].kind = IF p.midi_note # None THEN "midi"
                           ELSE IF p.sound # None THEN "sound" ELSE "loop"
        /\ Len(tasks[t].out) <= IF tasks[t].kind = "midi" THEN 2 ELSE 1
        /\ \A o \in 1..Len(tasks[t].out) :
            LET out == tasks[t].out[o] IN
            IF p.midi_note # None
                THEN /\ out.dev = "midi" /\ out.note = p.midi_note[1]
                     /\ out.op = IF o = 1 THEN "note_on" ELSE "note_off"
            ELSE IF p.sound # None
                THEN /\ out.dev \in {"audio", "log"} /\ out.label = p.sound[1]
                     /\ out.op \in {"sample", "warning"}
            ELSE /\ out.dev \in {"audio", "log"} /\ out.label = p.loop_name[1]
                 /\ out.op \in {"loop", "warning"}
    /\ \A t, u \in 1..Len(tasks) :
        (/\ tasks[t].cycle = tasks[u].cycle /\ tasks[t].tick = tasks[u].tick
         /\ tasks[t].idx = tasks[u].idx) => t = u

\* the pattern with all three fields set has played its note and nothing
\* else, the pattern with a sample and a loop has played its sample, and the
\* pattern with no field set, matched at tick 0, has no closure
C7_Witness ==
    /\ \E t \in 1..Len(tasks) :
        LET p == Pat(patterns[tasks[t].idx]) IN
        /\ p.midi_note # None /\ p.sound # None /\ p.loop_name # None
        /\ tasks[t].status = "done"
        /\ tasks[t].out = << note_on(60, 200), note_off(60) >>
    /\ \E t \in 1..Len(tasks) :
        LET p == Pat(patterns[tasks[t].idx]) IN
        /\ p.midi_note = None /\ p.sound # None /\ p.loop_name # None
        /\ tasks[t].status = "done"
        /\ tasks[t].out[1].op = "sample"
    /\ \E k \in 1..Len(patterns) :
        /\ ~HasTrigger(Pat(patterns[k])) /\ Pat(patterns[k]).beats = <<0>>
        /\ \A t \in 1..Len(tasks) : tasks[t].idx # k

\* the closure t has printed the warning of a label that is not in the bank
Dropped(t) ==
    /\ t.status = "done" /\ t.kind \in {"sound", "loop"}
    /\ t.out = << Output("log", "warning", 0, t.label, 0) >>

\* C8: a trigger whose sample or loop label is not in the bank prints a
\* warning and does nothing else: the step changes no other closure and
\* nothing of the scheduling loop, which goes on to its next tick; a closure
\* of the same tick whose label is in the bank plays its sample.
C8_MissingLabelDropped ==
    /\ [](\A t \in 1..Len(tasks) :
            (tasks[t].status = "done" /\ tasks[t].kind = "sound") =>
                tasks[t].out =
                    IF tasks[t].label \in sound_bank
                        THEN << Output("audio", "sample", 0, tasks[t].label,
                                       tasks[t].velocity) >>
                        ELSE << Output("log", "warning", 0, tasks[t].label, 0) >>)
    /\ [](\A t \in 1..Len(tasks) :
            (tasks[t].status = "done" /\ tasks[t].kind = "loop") =>
                tasks[t].out =
                    IF tasks[t].label \in DOMAIN loop_bank
                        THEN << Output("audio", "loop", 0, tasks[t].label,
                                       tasks[t].velocity) >>
                        ELSE << Output("log", "warning", 0, tasks[t].label, 0) >>)
    /\ []((\E t \in 1..Len(tasks) : Dropped(tasks[t])) =>
            /\ pc = "sleep" => ENABLED TickSleep
            /\ (pc = "beat" /\ ticks_run < MaxTicks) => ENABLED TickBeat)
    /\ [][\A t \in 1..Len(tasks) :
            (~Dropped(tasks[t]) /\ Dropped(tasks'[t])) =>
                /\ Len(tasks') = Len(tasks)
                /\ \A u \in 1..Len(tasks) : u # t => tasks'[u] = tasks[u]
                /\ UNCHANGED <<pc, i, cycle, running, current_beat,
                               current_patterns, patterns>>]_vars

\* pattern A with the label "missing" and pattern B with the label "bd" were
\* matched at tick 4: A was dropped with a warning, B has played, and the
\* loop has gone on to a later tick
C8_Witness ==
    /\ \E a, b \in 1..Len(tasks) :
        /\ tasks[a].cycle = tasks[b].cycle /\ tasks[a].tick = 4 /\ tasks[b].tick = 4
        /\ tasks[a].label = "missing" /\ Dropped(tasks[a])
        /\ tasks[b].label = "bd" /\ tasks[b].status = "done"
        /\ tasks[b].out = << Output("audio", "sample", 0, "bd", 90) >>
        /\ a < b
    /\ i = 6 /\ pc = "dispatch"

\* C9: before the ready flag is set no tick is executed: no cycle has
\* started, the playhead has not been written and no trigger was dispatched.
C9_ReadyGate ==
    ~gui_ready =>
        /\ cycle = 0 /\ tasks = << >> /\ current_beat = 0
        /\ pc \in {"check", "snapshot", "wait", "done"}

\* the playback thread waits while the visualizer finishes its first frame
C9_Witness ==
    ~gui_ready /\ pc = "wait" /\ gui_pc = "ready" /\ show_gui

\* the patterns of a collection that tick `tick` matches and that have a trigger
Triggered(coll, tick) ==
    {k \in 1..Len(coll) :
        /\ HasTrigger(Pat(coll[k]))
        /\ \E j \in 1..Len(Pat(coll[k]).beats) : Pat(coll[k]).beats[j] * N = tick * Scale}

\* C10, as claimed: the patterns matched at tick i are those of the store as
\* it stands when tick i is processed.
C10_TickReadsStore ==
    [][(pc = "dispatch" /\ pc' = "sleep" /\ ~patterns_writer) =>
        /\ {NewTasks[t].idx : t \in 1..Len(NewTasks)} = Triggered(patterns, i)
        /\ \A t \in 1..Len(NewTasks) :
                FromPattern(NewTasks[t], Pat(patterns[NewTasks[t].idx]))]_vars

\* C10, amended: the playback thread reads a consistent snapshot of the
\* store once per cycle, when the cycle is about to start, and every tick of
\* that cycle is matched against that snapshot; a replace completed after
\* the snapshot was read is reflected from the next cycle on.
C10_CycleReadsSnapshot ==
    [][/\ (pc = "snapshot" /\ pc' = "wait") =>
            current_patterns' = patterns /\ patterns \in CompleteCollections
       /\ (pc \in {"wait", "beat", "dispatch", "sleep"} /\ pc' # "snapshot") =>
            current_patterns' = current_patterns
       /\ (pc = "dispatch" /\ pc' = "sleep") =>
            /\ {NewTasks[t].idx : t \in 1..Len(NewTasks)} = Triggered(current_patterns, i)
            /\ \A t \in 1..Len(NewTasks) :
                    FromPattern(NewTasks[t], Pat(current_patterns[NewTasks[t].idx]))]_vars

\* a replace was completed during the cycle and the tick just dispatched
\* was matched against the snapshot, not against the store
C10_Witness ==
    /\ pc = "sleep" /\ ~patterns_writer /\ reload_pc = "sleep"
    /\ current_patterns # patterns
    /\ Triggered(current_patterns, i) # Triggered(patterns, i)
    /\ {tasks[t].idx : t \in {u \in 1..Len(tasks) :
                                tasks[u].cycle = cycle /\ tasks[u].tick = i}}
            = Triggered(current_patterns, i)

\* C11: the snapshot a cycle iterates is a copy of its own: no step of the
\* reload thread changes it, and a tick dispatched while the store differs
\* from the snapshot, a write in progress included, is matched against the
\* snapshot as it was read.
C11_SnapshotIndependent ==
    /\ [][(patterns' # patterns \/ patterns_writer' # patterns_writer
                \/ reload_pc' # reload_pc)
            => UNCHANGED <<current_patterns, tasks, pc, i, cycle>>]_vars
    /\ [][(pc = "dispatch" /\ pc' = "sleep" /\ current_patterns # patterns) =>
            /\ current_patterns' = current_patterns
            /\ current_patterns \in CompleteCollections
            /\ {NewTasks[t].idx : t \in 1..Len(NewTasks)} = Triggered(current_patterns, i)
            /\ \A t \in 1..Len(NewTasks) :
                    FromPattern(NewTasks[t], Pat(current_patterns[NewTasks[t].idx]))]_vars

\* the reload thread is in the middle of its write, the store is half
\* written, and the tick just dispatched has the closures of the snapshot
C11_Witness ==
    /\ pc = "sleep" /\ i = 4 /\ patterns_writer /\ reload_pc = "writing"
    /\ patterns \notin CompleteCollections
    /\ Triggered(current_patterns, 4) # { }
    /\ {tasks[t].idx : t \in {u \in 1..Len(tasks) :
                                tasks[u].cycle = cycle /\ tasks[u].tick = 4}}
            = Triggered(current_patterns, 4)

\* the ticks of the cycle in progress that have been dispatched
DispatchedTicks ==
    {tick \in 0..(LoopBeats * N - 1) : tick < i \/ (tick = i /\ pc = "sleep")}

\* C12: over a cycle a pattern fires for an offset b once, at the tick i with
\* i/N = b, and at no other tick: the closures of the cycle are, for every
\* pattern with a trigger, one for each dispatched tick whose beat is among
\* its beats (with loop_beats = 1 and N = 8, beats {0.0, 0.5} give tick 0 and
\* tick 4 and no other).
C12_FiresOncePerOffset ==
    (cycle >= 1 /\ pc # "wait") =>
        LET mine == {t \in 1..Len(tasks) : tasks[t].cycle = cycle}
            fired == {<<tasks[t].idx, tasks[t].tick>> : t \in mine}
        IN /\ Cardinality(mine) = Cardinality(fired)
           /\ fired =
                {kt \in (1..Len(current_patterns)) \X DispatchedTicks :
                    /\ HasTrigger(Pat(current_patterns[kt[1]]))
                    /\ \E j \in 1..Len(Pat(current_patterns[kt[1]]).beats) :
                            Pat(current_patterns[kt[1]]).beats[j] * N = kt[2] * Scale}

\* a full cycle of one beat is over and the pattern with beats {0.0, 0.5}
\* has fired at tick 0 and at tick 4
C12_Witness ==
    /\ LoopBeats = 1 /\ cycle = 1 /\ pc = "check" /\ i = LoopBeats * N
    /\ Pat(current_patterns[1]).beats = <<0, 8>>
    /\ {tasks[t].tick : t \in {u \in 1..Len(tasks) : tasks[u].idx = 1}} = {0, 4}

\* C13: the closure of a MIDI trigger sends Note On for its pitch and, after
\* the duration, Note Off for the same pitch: nothing is sent before the
\* closure runs, Note On comes first, and a closure that has ended has sent
\* its Note Off; the scheduling thread does not move while the worker waits.
C13_NoteOnThenNoteOff ==
    \A t \in 1..Len(tasks) :
        tasks[t].kind = "midi" =>
            /\ tasks[t].status = "queued" => tasks[t].out = << >>
            /\ tasks[t].status = "on" =>
                    /\ Len(tasks[t].out) = 1
                    /\ tasks[t].out[1].op = "note_on"
                    /\ tasks[t].out[1].note = tasks[t].note
            /\ tasks[t].status \notin {"queued", "on"} =>
                    /\ Len(tasks[t].out) = 2
                    /\ tasks[t].out[1].op = "note_on"
                    /\ tasks[t].out[2].op = "note_off"
                    /\ tasks[t].out[1].note = tasks[t].note
                    /\ tasks[t].out[2].note = tasks[t].note

\* C14: the velocity byte of every Note On is the velocity of the pattern
\* clamped to 0..127: a velocity below 0 is sent as 0, one above 127 as 127,
\* any other as it is.
C14_VelocityClamped ==
    \A t \in 1..Len(tasks) :
        \A o \in 1..Len(tasks[t].out) :
            tasks[t].out[o].op = "note_on" =>
                LET velocity == Pat(patterns[tasks[t].idx]).velocity
                    sent == tasks[t].out[o].value
                IN /\ sent \in 0..127
                   /\ velocity < 0 => sent = 0
                   /\ velocity > 127 => sent = 127
                   /\ velocity \in 0..127 => sent = velocity

\* a pattern with a velocity above 127 has had its Note On sent with 127
C14_Witness ==
    \E t \in 1..Len(tasks) :
        /\ tasks[t].status = "on"
        /\ Pat(patterns[tasks[t].idx]).velocity > 127
        /\ tasks[t].out[1].op = "note_on" /\ tasks[t].out[1].value = 127

\* the .wav files of the directory being loaded, and those among them whose
\* load has succeeded
WavFiles == {f \in {loader.paths[k] : k \in 1..Len(loader.paths)} : Files[f].ext = "wav"}
Loaded(f) == IF loader.kind = "sound" THEN load_sample(Files[f]) ELSE load_loop(Files[f])
Succeeded == {f \in WavFiles : Loaded(f) # None}

WellFormedStem(file) ==
    /\ Len(file.parts) = 3
    /\ parse_u32(file.parts[1]) # None
    /\ parse_u32(file.parts[2]) # None

\* C16: a LoopBank holds a loop file only if its stem encodes
\* {native_tempo}_{beat_length}_{name}, under the label name and with the
\* encoded tempo; a file whose stem does not encode the three fields is left
\* out, and the well-formed files that decode are in the bank.
C16_OnlyWellFormedLoops ==
    (loader.kind = "loop" /\ loader.pc = "returned") =>
        /\ \A l \in DOMAIN loader.data :
            \E f \in WavFiles :
                /\ Files[f].stem = loader.data[l].pcm
                /\ Files[f].decodes
                /\ WellFormedStem(Files[f])
                /\ l = Files[f].parts[3]
                /\ loader.data[l].tempo = parse_u32(Files[f].parts[1])
        /\ \A f \in WavFiles :
            (Files[f].decodes /\ WellFormedStem(Files[f]))
                => Files[f].parts[3] \in DOMAIN loader.data

\* C17: the reload thread looks at the flag only where it begins a poll:
\* once the flag is cleared the thread ends (or the process does), it ends
\* nowhere but at that test, and after it has seen the cleared flag it
\* replaces the store no more.
C17_ReloadStops ==
    /\ (~running) ~> (reload_pc = "done" \/ ~process_alive)
    /\ [][(reload_pc # "done" /\ reload_pc' = "done") =>
                reload_pc = "poll" /\ ~running]_vars
    /\ [][reload_pc = "done" =>
                /\ reload_pc' = "done"
                /\ patterns' = patterns /\ patterns_writer' = patterns_writer]_vars

\* the flag is cleared and the reload thread has seen it and ended, with the
\* store whole, while the process is still alive and the playback thread has
\* ended too
C17_Witness ==
    /\ reload_pc = "done" /\ ~running /\ process_alive
    /\ cancelled_at.set /\ patterns \in CompleteCollections
    /\ pc = "done"

\* C18: when the program has terminated, every trigger task that was
\* dispatched has run to its end: none is still waiting in a pool's queue
\* and no MIDI task is left between its Note On and its Note Off.
C18_NoHardKill ==
    main_pc = "exited" =>
        \A t \in 1..Len(tasks) : tasks[t].status \notin {"queued", "on"}

\* C19: the scheduling thread can always come to its end once cancellation
\* has been requested: it is never left, with the flag cleared, waiting for
\* a ready signal that no thread can raise any more (main has gone on to
\* join the scheduling thread and the signal is still down).
C19_SchedulerCanStop ==
    (~running /\ pc = "wait") => (gui_ready \/ main_pc = "run")

\* C20: the playhead changes only in the scheduling loop's write at the head
\* of a tick; a step of the reload thread, of a pool worker or of the
\* visualizer leaves it as it was.
C20_PlayheadSingleWriter ==
    /\ [][current_beat' # current_beat =>
                /\ pc = "beat" /\ pc' = "dispatch"
                /\ current_beat' = computed_current_beat(i)]_vars
    /\ [][(reload_pc' # reload_pc \/ reload_local' # reload_local
                \/ patterns' # patterns \/ patterns_writer' # patterns_writer)
            => current_beat' = current_beat]_vars
    /\ [][(gui_pc' # gui_pc \/ gui_local' # gui_local \/ gui_ready' # gui_ready)
            => current_beat' = current_beat]_vars
    /\ [][(Len(tasks') = Len(tasks) /\ tasks' # tasks)
            => current_beat' = current_beat]_vars

\* the playhead stands past the start of the cycle while the visualizer has
\* read it for a frame, the reload thread is writing the store and a worker
\* holds a MIDI note
C20_Witness ==
    /\ current_beat > 0
    /\ gui_pc = "patterns"
    /\ patterns_writer
    /\ \E t \in 1..Len(tasks) : tasks[t].status = "on"

\* C21: at most PoolSize dispatched trigger tasks are executing at the same
\* time, over all cycles: the tasks inside their closure (a MIDI note between
\* its Note On and its Note Off) are never more than the size of the pool.
C21_AtMostPoolSizeExecuting ==
    Cardinality({t \in 1..Len(tasks) : tasks[t].status = "on"}) <= PoolSize

\* the time since the cycle's start_time
Elapsed == clock.now - clock.start

\* C22: at the end of tick i the loop does not sleep when the elapsed time
\* has reached the target (i+1)*TickUnits and goes on at once, and otherwise
\* asks for a sleep of exactly target - elapsed; and no tick is dispatched
\* late: a tick is begun only while its own time slot, which ends at
\* (i+1)*TickUnits, has not wholly passed (a tick whose slot has passed is
\* skipped).
C22_NoSleepOnOverrunNoLateTick ==
    /\ [][(pc = "sleep" /\ pc' # "sleep") =>
            IF Elapsed >= (i + 1) * TickUnits
                THEN clock'.now = clock.now /\ clock'.requested = 0
                ELSE /\ clock'.requested = (i + 1) * TickUnits - Elapsed
                     /\ clock'.now >= clock.now + clock'.requested]_vars
    /\ [][(pc = "beat" /\ pc' = "dispatch") => Elapsed < (i + 1) * TickUnits]_vars

\* C23: while the dispatch of every tick so far has taken less than one tick
\* duration (and no sleep has ended a tick duration late), tick i begins no
\* earlier than i*TickUnits after the cycle's start and less than one tick
\* duration after that, and the function returns no earlier than
\* loop_beats*N*TickUnits after the start and less than one tick duration
\* after that, for every loop_beats; the lower bounds need no premise.
C23_DriftBelowOneTick ==
    /\ pc = "dispatch" =>
            /\ clock.began - clock.start >= i * TickUnits
            /\ clock.prompt => clock.began - clock.start < i * TickUnits + TickUnits
    /\ pc = "returned" =>
            /\ Elapsed >= clock.loop_beats * N * TickUnits
            /\ clock.prompt => Elapsed < clock.loop_beats * N * TickUnits + TickUnits

\* a cycle of the most beats has returned after its time, every dispatch having
\* been shorter than a tick, and the last tick had work before its sleep
C23_Witness ==
    /\ pc = "returned" /\ clock.prompt
    /\ clock.loop_beats = MaxLoopBeats
    /\ i = MaxLoopBeats * N
    /\ clock.requested \in 1..(TickUnits - 1)
    /\ Elapsed > clock.loop_beats * N * TickUnits

\* C24: the ticks of a cycle are begun in the order 0, 1, 2, ... with none
\* left out and none twice, whatever time the earlier ticks have taken; the
\* dispatch of tick i hands over one closure for each pattern with a trigger
\* whose beats hold the beat of tick i, and no other; and the function
\* returns only after tick loop_beats*N - 1, also when Ctrl+C came meanwhile.
C24_EveryTickOnceInOrder ==
    /\ [](/\ clock.order = [k \in 1..Len(clock.order) |-> k - 1]
          /\ Len(clock.order) = IF pc \in {"dispatch", "sleep"} THEN i + 1 ELSE i
          /\ i <= clock.loop_beats * N
          /\ pc = "returned" => i = clock.loop_beats * N)
    /\ [][(pc = "dispatch" /\ pc' = "sleep") =>
            /\ {NewTasks[t].idx : t \in 1..Len(NewTasks)} = Triggered(current_patterns, i)
            /\ Cardinality({NewTasks[t].idx : t \in 1..Len(NewTasks)}) = Len(NewTasks)
            /\ \A t \in 1..Len(NewTasks) :
                    NewTasks[t].tick = i /\ NewTasks[t].cycle = cycle]_vars
    /\ [][pc = "returned" => pc' = "returned" /\ tasks' = tasks]_vars

\* a cycle has returned after all its ticks although some dispatch took a
\* tick or more, the cycle ended more than a tick late and Ctrl+C was pressed
\* during it
C24_Witness ==
    /\ pc = "returned" /\ ~clock.prompt /\ ~running
    /\ clock.loop_beats = MaxLoopBeats
    /\ Len(clock.order) = MaxLoopBeats * N
    /\ Elapsed >= clock.loop_beats * N * TickUnits + TickUnits
    /\ Len(tasks) > 0

\* thread is asking for a lock
Waiting(thread) == Doing(thread).op = "acquire"

C26_MutexFreeDuringWait ==
    \A w \in MidiWorkers :
        /\ locking.at[w] = SleepPlace => locking.held[w] = {}
        /\ locking.held[w] # {} =>
                /\ locking.held[w] = {[lock |-> "midi_conn", mode |-> "lock"]}
                /\ Doing(w).op = "release"
        /\ \A v \in MidiWorkers \ {w} :
                (locking.at[w] = SleepPlace /\ Waiting(v))
                    => Grantable(v, Doing(v).lock, Doing(v).mode)

\* worker1 sleeps between its Note On and its Note Off while worker2 holds
\* the mutex for its own Note On
C26_Witness ==
    /\ locking.at["worker1"] = SleepPlace
    /\ locking.at["worker2"] = 3
    /\ locking.held["worker2"] = {[lock |-> "midi_conn", mode |-> "lock"]}

\* the map a call gives when its closures end one after the other, in the
\* order of the listing
RECURSIVE LoadedInOrder(_, _, _)
LoadedInOrder(kind, paths, data) ==
    IF paths = << >> THEN data
    ELSE LET file == Files[Head(paths)]
             loaded == IF file.ext # "wav" THEN None
                       ELSE IF kind = "sound" THEN load_sample(file)
                       ELSE load_loop(file)
         IN LoadedInOrder(kind, Tail(paths),
                          IF loaded = None THEN data ELSE insert(data, loaded[1]))

\* C27: the map a load returns is fixed by the files of the directory: in
\* whatever order the workers of the pool end, it is the map the load gives
\* when they end in the order of the listing.
C27_LoadDeterministic ==
    (loader.kind # "none" /\ loader.pc = "returned") =>
        loader.data = LoadedInOrder(loader.kind, loader.paths, << >>)

\* the patterns every load appends to those of patterns.json
FixedPatterns == BuiltinLoops \o generate_chord_patterns \o MidiPattern

\* C28: whenever the store can be read (no write of it is under way) it ends
\* with the two built-in loop patterns, the built-in chord patterns and the
\* patterns of the MIDI file, in that order, and what stands before them is
\* the pattern list of some content of patterns.json, or nothing.
C28_StoreKeepsBuiltins ==
    read_lock_free(patterns_writer) =>
        LET n == Len(patterns) - Len(FixedPatterns)
        IN /\ n >= 0
           /\ SubSeq(patterns, n + 1, Len(patterns)) = FixedPatterns
           /\ SubSeq(patterns, 1, n) \in {file.json : file \in FileContents}
           /\ \A k \in 1..Len(FixedPatterns) :
                \E j \in 1..Len(patterns) : patterns[j] = FixedPatterns[k]

\* the cycle under way plays the collection with the patterns of a valid
\* patterns.json; since its snapshot a poll that could not parse the file has
\* left the store with the fixed patterns alone, and a poll that read another
\* valid file is about to replace it
C28_Witness ==
    /\ cycle >= 1
    /\ current_patterns = generate_combined_patterns(MidiPattern, JsonA)
    /\ patterns = FixedPatterns
    /\ ~patterns_writer
    /\ reload_pc = "write" /\ reload_local.outcome = "ok"
    /\ reload_local.combined = generate_combined_patterns(MidiPattern, JsonB)

====
